---- MODULE Spec2Model ----
(***************************************************************************)
(* Model of pydax/_extractors.py: the tar extractor, the placeholder       *)
(* extractors, the two registries and the dispatcher extract_data_files.   *)
(* A dispatch is a sequence of steps of one caller; the filesystem is a    *)
(* map from paths to contents that all callers share.                      *)
(***************************************************************************)
EXTENDS Integers, Sequences, FiniteSets, TLC

(* ------------------------------ bounds --------------------------------- *)
\* longest archive (number of members) the model enumerates
MaxMembers == 2
\* largest size of a regular member
MaxSize == 2

(* --------------------------- python values ----------------------------- *)
None == "None"

\* A python dict is a sequence of <<key, value>> pairs with distinct keys,
\* in insertion order.
dict_keys(d) == [i \in 1..Len(d) |-> d[i][1]]

dict_values(d) == [i \in 1..Len(d) |-> d[i][2]]

dict_has(d, key) == \E i \in 1..Len(d) : d[i][1] = key

dict_index(d, key) == CHOOSE i \in 1..Len(d) : d[i][1] = key

dict_get(d, key, default) ==
    IF dict_has(d, key) THEN d[dict_index(d, key)][2] ELSE default

\* d[key] = value : an existing key keeps its position, a new key goes last.
dict_set(d, key, value) ==
    IF dict_has(d, key)
    THEN [d EXCEPT ![dict_index(d, key)] = <<key, value>>]
    ELSE Append(d, <<key, value>>)

\* {**b, **a}: the entries of b come first
RECURSIVE dict_merge_reversed(_, _)
dict_merge_reversed(a, b) ==
    IF a = <<>> THEN b
    ELSE dict_merge_reversed(Tail(a), dict_set(b, Head(a)[1], Head(a)[2]))

\* {**a, **b}
RECURSIVE dict_merge(_, _)
dict_merge(a, b) ==
    IF b = <<>> THEN a
    ELSE dict_merge(dict_set(a, Head(b)[1], Head(b)[2]), Tail(b))

\* An exception: its class, its message template and the values formatted
\* into the message, in order.
Exc(type, text, interpolated) ==
    [type |-> type, text |-> text, interpolated |-> interpolated]

(* -------------------------------- paths -------------------------------- *)
\* A path is a directory and a file name; a file name is its stem followed
\* by its extensions (x.csv.gz is <<"x", "csv", "gz">>).
Path(dir, name) == [dir |-> dir, name |-> name]

\* os.path.join(data_dir, member.name), as TarFile.extractall does
join(dir, member_name) == Path(dir, <<member_name>>)

\* posixpath.splitext on a file name
splitext(name) ==
    IF Len(name) > 1
    THEN <<SubSeq(name, 1, Len(name) - 1), name[Len(name)]>>
    ELSE <<name, "">>

\* mimetypes.suffix_map, encodings_map and types_map (the entries in play)
suffix_map ==
    << <<"tgz", <<"tar", "gz">> >>, <<"tbz2", <<"tar", "bz2">> >>,
       <<"txz", <<"tar", "xz">> >> >>

encodings_map ==
    << <<"gz", "gzip">>, <<"Z", "compress">>, <<"bz2", "bzip2">>,
       <<"xz", "xz">> >>

types_map ==
    << <<"tar", "application/x-tar">>, <<"zip", "application/zip">>,
       <<"csv", "text/csv">>, <<"txt", "text/plain">> >>

\* mimetypes.guess_type(path): <<ftype, fencoding>>, from the name alone
guess_type(path) ==
    LET s0 == splitext(path.name)
        n1 == IF dict_has(suffix_map, s0[2])
              THEN s0[1] \o dict_get(suffix_map, s0[2], <<>>)
              ELSE path.name
        s1 == splitext(n1)
        fencoding == dict_get(encodings_map, s1[2], None)
        s2 == IF fencoding # None THEN splitext(s1[1]) ELSE s1
        ftype == dict_get(types_map, s2[2], None)
    IN  <<ftype, fencoding>>

(* ----------------------------- tar members ----------------------------- *)
\* tarfile type codes (member.type is one byte)
REGTYPE == "0"
DIRTYPE == "5"
SYMTYPE == "2"
AREGTYPE == "NUL"

\* TarInfo.isreg() and TarInfo.isdir()
isreg(member) == member.type \in {REGTYPE, AREGTYPE}

isdir(member) == member.type = DIRTYPE

issym(member) == member.type = SYMTYPE

\* int(member.type): defined on the decimal digits, ValueError otherwise
Digits == <<"0", "1", "2", "3", "4", "5", "6", "7", "8", "9">>

int_ok(b) == \E i \in 1..Len(Digits) : Digits[i] = b

int(b) == (CHOOSE i \in 1..Len(Digits) : Digits[i] = b) - 1

MemberNames == {"a", "b"}

TarInfos ==
    {[name |-> n, type |-> REGTYPE, size |-> s] :
        n \in MemberNames, s \in {1, MaxSize}}
    \cup {[name |-> n, type |-> DIRTYPE, size |-> 0] : n \in MemberNames}
    \cup {[name |-> n, type |-> AREGTYPE, size |-> 1] : n \in MemberNames}

SeqsUpTo(S, n) == UNION {[1..m -> S] : m \in 0..n}

\* members of every kind the manifest tells apart: regular files,
\* directories and symbolic links
\* members of an archive that holds a file named like the archive itself
AliasTarInfos ==
    {[name |-> n, type |-> REGTYPE, size |-> s] : n \in {"a", "x"}, s \in {1, MaxSize}}
    \cup {[name |-> n, type |-> DIRTYPE, size |-> 0] : n \in {"a", "x"}}

TypedTarInfos ==
    {[name |-> n, type |-> REGTYPE, size |-> s] :
        n \in MemberNames, s \in {1, MaxSize}}
    \cup {[name |-> n, type |-> t, size |-> 0] :
        n \in MemberNames, t \in {DIRTYPE, SYMTYPE}}

(* --------------------------- file contents ----------------------------- *)
Absent == [kind |-> "absent"]

\* a file that tarfile.open reads as a tar archive with these members
TarFile(members) == [kind |-> "tar", members |-> members]

\* a file that no tar reader accepts
NotTar == [kind |-> "bytes"]

\* json.dump with sort_keys=True: the items sorted by key
name_rank(n) == CHOOSE i \in 1..2 : <<"a", "b">>[i] = n

json_dump_sort_keys(d) ==
    [kind |-> "json",
     items |-> SortSeq(d, LAMBDA x, y : name_rank(x[1]) < name_rank(y[1]))]

\* the text json.dump writes: the dict's items in the dict's order
json_dump(d) == [kind |-> "json", items |-> d]

RegularFile(size) == [kind |-> "file", size |-> size]

Directory == [kind |-> "dir"]

Symlink == [kind |-> "link"]

SourceContents == {TarFile(ms) : ms \in SeqsUpTo(TarInfos, MaxMembers)} \cup {NotTar}

(* ---------------------- the places of the file system ------------------ *)
SourceNames ==
    { <<"x", "tar">>, <<"x", "tgz">>, <<"x", "zip">>, <<"x", "csv", "gz">>,
      <<"x", "csv", "bz2">>, <<"x", "txt", "xz">>, <<"x", "csv">>, <<"x">> }

SourcePaths == {Path("dl", n) : n \in SourceNames}

DataDirs == {"d1", "d2"}

ListFile(dir) == Path(dir, <<"files", "json">>)

\* the <<data_dir, file_list_file>> pairs a caller passes
Targets == {<<d, ListFile(d)>> : d \in DataDirs}

\* the directory of the source files, given as the target directory
DownloadDir == "dl"

AllPaths ==
    SourcePaths \cup {ListFile(d) : d \in DataDirs \cup {DownloadDir}}
    \cup {join(d, n) : d \in DataDirs \cup {DownloadDir}, n \in MemberNames \cup {"x"}}

\* the callers, in the order of their calls
Callers == <<"p1", "p2">>

Procs == {Callers[i] : i \in 1..Len(Callers)}

(* ------------------------------ registries ----------------------------- *)
archives ==
    << <<"application/x-tar", "tar_extractor">>,
       <<"application/zip", "zip_extractor">> >>

compressions ==
    << <<"gzip", "gzip_extractor">>, <<"bzip2", "bzip2_extractor">>,
       <<"xz", "lzma_extractor">> >>

\* every extractor declared with the three parameters of the call
parameters_uniform ==
    [tar_extractor |-> <<"path", "data_dir", "file_list_file">>,
     zip_extractor |-> <<"path", "data_dir", "file_list_file">>,
     gzip_extractor |-> <<"path", "data_dir", "file_list_file">>,
     bzip2_extractor |-> <<"path", "data_dir", "file_list_file">>,
     lzma_extractor |-> <<"path", "data_dir", "file_list_file">>]

\* the parameters each extractor declares
parameters ==
    [tar_extractor |-> <<"path", "data_dir", "file_list_file">>,
     zip_extractor |-> <<"path">>,
     gzip_extractor |-> <<"path">>,
     bzip2_extractor |-> <<"path">>,
     lzma_extractor |-> <<"path">>]

extractor_map == dict_merge(archives, compressions)

\* any(key in extractor_map.keys() for key in (ftype, fencoding))
hint_resolves(ftype, fencoding) ==
    dict_has(extractor_map, ftype) \/ dict_has(extractor_map, fencoding)

\* the encoding looked up before the type
hinted_extractor_encoding_first(ftype, fencoding) ==
    dict_get(extractor_map, fencoding, dict_get(extractor_map, ftype, None))

\* extractor_map.get(ftype, extractor_map.get(fencoding))
hinted_extractor(ftype, fencoding) ==
    dict_get(extractor_map, ftype, dict_get(extractor_map, fencoding, None))

\* a sweep over the compression extractors only
sweep_extractors_compressions == dict_values(compressions)

\* a sweep over the archive extractors and then over the whole registry
sweep_extractors_twice == dict_values(archives) \o dict_values(extractor_map)

\* the extractors the sweep iterates: extractor_map.values()
sweep_extractors == dict_values(extractor_map)

\* raise RuntimeError('Filetype not supported')
unsupported_error(path) == Exc("RuntimeError", "Filetype not supported", <<>>)

(* ---------------------------- tar_extractor ---------------------------- *)
\* the error tarfile.open raises on a file that is not a tar archive
open_error == Exc("ReadError", "file could not be opened successfully", <<>>)

\* a bare "raise": the error of tarfile.open goes on as it is
read_error_reraised(path, e) == e

\* raise tarfile.ReadError(f'Failed to unarchive "{path}"\ncaused by:\n{e}')
read_error(path, e) ==
    Exc("ReadError", "Failed to unarchive \"{path}\"\ncaused by:\n{e}", <<path, e>>)

\* the loop with "if member.name not in members": the first member of a
\* name is the one recorded
RECURSIVE members_loop_first_wins(_, _)
members_loop_first_wins(tarinfos, n) ==
    IF n = 0 THEN <<>>
    ELSE LET member == tarinfos[n]
             d0 == members_loop_first_wins(tarinfos, n - 1)
             d1 == dict_set(d0, member.name, << <<"type", int(member.type)>> >>)
         IN  IF dict_has(d0, member.name) THEN d0
             ELSE IF isreg(member)
             THEN dict_set(d1, member.name,
                      dict_set(dict_get(d1, member.name, <<>>), "size", member.size))
             ELSE d1

\* the loop with "members.setdefault(member.name, {})['type'] = ...": the
\* entry of a name is updated, not replaced
RECURSIVE members_loop_updating(_, _)
members_loop_updating(tarinfos, n) ==
    IF n = 0 THEN <<>>
    ELSE LET member == tarinfos[n]
             d0 == members_loop_updating(tarinfos, n - 1)
             d1 == dict_set(d0, member.name,
                       dict_set(dict_get(d0, member.name, <<>>), "type", int(member.type)))
         IN  IF isreg(member)
             THEN dict_set(d1, member.name,
                      dict_set(dict_get(d1, member.name, <<>>), "size", member.size))
             ELSE d1

\* the loop over tar.getmembers(): the dict after the first n members
RECURSIVE members_loop(_, _)
members_loop(tarinfos, n) ==
    IF n = 0 THEN <<>>
    ELSE LET member == tarinfos[n]
             d0 == members_loop(tarinfos, n - 1)
             d1 == dict_set(d0, member.name, << <<"type", int(member.type)>> >>)
         IN  IF isreg(member)
             THEN dict_set(d1, member.name,
                      dict_set(dict_get(d1, member.name, <<>>), "size", member.size))
             ELSE d1

\* the loop raises ValueError at the first member whose type is no digit
members_ok(tarinfos) == \A i \in 1..Len(tarinfos) : int_ok(tarinfos[i].type)

\* what the call of tar_extractor does up to the manifest write:
\* the error it raises, or "opened" with the dict it has built
tar_open(content, path) ==
    IF content.kind # "tar"
    THEN [raised |-> TRUE, error |-> read_error(path, open_error)]
    ELSE IF ~members_ok(content.members)
    THEN [raised |-> TRUE,
          error |-> Exc("ValueError", "invalid literal for int() with base 10", <<>>)]
    ELSE [raised |-> FALSE, tarinfos |-> content.members,
          members |-> members_loop(content.members, Len(content.members))]

\* TarFile.extract of one member: a regular file cannot replace a directory
extract_raises(member, old) == isreg(member) /\ old.kind = "dir"

\* what is at the target path after the member is extracted: a directory
\* is made where nothing is, a link replaces anything but a directory, a
\* regular file is written where no link is (through a link it is written
\* to the place the link names)
extract_member(member, old) ==
    IF isdir(member)
    THEN (IF old.kind = "absent" THEN Directory ELSE old)
    ELSE IF issym(member)
    THEN (IF old.kind = "dir" THEN old ELSE Symlink)
    ELSE (IF old.kind = "link" THEN old ELSE RegularFile(member.size))

(* -------------------------------- state -------------------------------- *)
VARIABLES
    fs,        \* the file system: path -> content
    pc,        \* where each caller's dispatch stands
    args,      \* the arguments of the caller's extract_data_files call
    idx,       \* position of the sweep in extractor_map.values()
    site,      \* the call site of the running tar attempt: hinted or sweep
    tar,       \* the TarInfo list of the open archive
    members,   \* the dict tar_extractor has built
    k,         \* the member extractall is at
    outcome,   \* how the dispatch ended: returned, or raised an error
    log,       \* history: the extractor attempts of the dispatch, in order
    fs0        \* history: the file system when the dispatch was called

vars == <<fs, pc, args, idx, site, tar, members, k, outcome, log, fs0>>

NoArgs == [path |-> Path("", <<>>), data_dir |-> "", file_list_file |-> Path("", <<>>)]

NoOutcome == [kind |-> "none"]

Returned == [kind |-> "returned"]

Raised(e) == [kind |-> "raised", error |-> e]

Init ==
    /\ \E content \in SourceContents :
          fs = [q \in AllPaths |-> IF q \in SourcePaths THEN content ELSE Absent]
    /\ pc = [p \in Procs |-> "idle"]
    /\ args = [p \in Procs |-> NoArgs]
    /\ idx = [p \in Procs |-> 0]
    /\ site = [p \in Procs |-> "none"]
    /\ tar = [p \in Procs |-> <<>>]
    /\ members = [p \in Procs |-> <<>>]
    /\ k = [p \in Procs |-> 0]
    /\ outcome = [p \in Procs |-> NoOutcome]
    /\ log = [p \in Procs |-> <<>>]
    /\ fs0 = [p \in Procs |-> fs]

(* ------------------------------ dispatcher ----------------------------- *)
\* an entry of the attempt history
Attempt(extractor, at, result, error) ==
    [extractor |-> extractor, site |-> at, result |-> result, error |-> error,
     manifest |-> FALSE, extracted |-> 0]

NoError == Exc("none", "", <<>>)

\* "except tarfile.ReadError: pass": only the tar read error is caught
except_pass_read_error_only(e, at, i) ==
    IF e.type = "ReadError"
    THEN [pc |-> "sweep", idx |-> IF at = "hinted" THEN 1 ELSE i + 1,
          outcome |-> NoOutcome]
    ELSE [pc |-> "done", idx |-> i, outcome |-> Raised(e)]

\* "return" placed after the try statement of the hinted attempt: the
\* dispatcher returns whether or not the hinted extractor raised
except_pass_then_return(e, at, i) ==
    IF at = "hinted"
    THEN [pc |-> "done", idx |-> i, outcome |-> Returned]
    ELSE [pc |-> "sweep", idx |-> i + 1, outcome |-> NoOutcome]

\* the classes "except Exception" catches
Exceptions ==
    {"TypeError", "ValueError", "ReadError", "IsADirectoryError", "RuntimeError"}

\* "except Exception: pass" at call site "at" with the sweep at position i:
\* a caught error sends the dispatcher on (from the hinted attempt to the
\* start of the sweep, inside the sweep to the next extractor), any other
\* error leaves extract_data_files
except_pass(e, at, i) ==
    IF e.type \in Exceptions
    THEN [pc |-> "sweep", idx |-> IF at = "hinted" THEN 1 ELSE i + 1,
          outcome |-> NoOutcome]
    ELSE [pc |-> "done", idx |-> i, outcome |-> Raised(e)]

\* the hinted attempt without its "else: return": the sweep follows a success
else_return_fallthrough(at, i) ==
    IF at = "hinted"
    THEN [pc |-> "sweep", idx |-> 1, outcome |-> NoOutcome]
    ELSE [pc |-> "done", idx |-> i, outcome |-> Returned]

\* "else: return" at call site "at": the attempt did not raise
else_return(at, i) == [pc |-> "done", idx |-> i, outcome |-> Returned]

\* the running attempt of p is its last log entry
SetLast(s, f, v) == [s EXCEPT ![Len(s)] = [@ EXCEPT ![f] = v]]

\* lines 97-103: entry, extractor_map, guess_type, the test of the hint
extract_data_files(p, path, data_dir, file_list_file) ==
    /\ pc[p] = "idle"
    /\ args' = [args EXCEPT ![p] =
                  [path |-> path, data_dir |-> data_dir, file_list_file |-> file_list_file]]
    /\ fs0' = [fs0 EXCEPT ![p] = fs]
    /\ LET hint == guess_type(path)
       IN  pc' = [pc EXCEPT ![p] =
                    IF hint_resolves(hint[1], hint[2]) THEN "hinted" ELSE "sweep"]
    /\ idx' = [idx EXCEPT ![p] = 1]
    /\ UNCHANGED <<fs, site, tar, members, k, outcome, log>>

\* the manifest file opened for writing before the archive is opened: a
\* failing attempt leaves an empty manifest file
attempt_raises_truncating(p, extractor, at, e) ==
    LET nxt == except_pass(e, at, idx[p])
    IN  /\ log' = [log EXCEPT ![p] = Append(@, Attempt(extractor, at, "raised", e))]
        /\ pc' = [pc EXCEPT ![p] = nxt.pc]
        /\ idx' = [idx EXCEPT ![p] = nxt.idx]
        /\ outcome' = [outcome EXCEPT ![p] = nxt.outcome]
        /\ fs' = [fs EXCEPT ![args[p].file_list_file] = [kind |-> "empty"]]
        /\ UNCHANGED <<args, site, tar, members, k, fs0>>

\* the extractor called at site "at" raises e before it has written anything
attempt_raises(p, extractor, at, e) ==
    LET nxt == except_pass(e, at, idx[p])
    IN  /\ log' = [log EXCEPT ![p] = Append(@, Attempt(extractor, at, "raised", e))]
        /\ pc' = [pc EXCEPT ![p] = nxt.pc]
        /\ idx' = [idx EXCEPT ![p] = nxt.idx]
        /\ outcome' = [outcome EXCEPT ![p] = nxt.outcome]
        /\ UNCHANGED <<fs, args, site, tar, members, k, fs0>>

\* the error of calling a function of n parameters with three arguments
arity_error(n) ==
    Exc("TypeError", "takes {n} positional argument but 3 were given", <<n>>)

\* the body of a placeholder extractor: it prints and returns, and the
\* dispatcher takes "else: return"
placeholder_returns(p, extractor, at) ==
    LET nxt == else_return(at, idx[p])
    IN  /\ log' = [log EXCEPT ![p] = Append(@, Attempt(extractor, at, "returned", NoError))]
        /\ pc' = [pc EXCEPT ![p] = nxt.pc]
        /\ idx' = [idx EXCEPT ![p] = nxt.idx]
        /\ outcome' = [outcome EXCEPT ![p] = nxt.outcome]
        /\ UNCHANGED <<fs, args, site, tar, members, k, fs0>>

\* extractor(path, data_dir, file_list_file) inside try/except, at call
\* site "at": a placeholder extractor raises TypeError at the call (it
\* declares one parameter), tar_extractor runs up to its manifest write
call_extractor(p, extractor, at) ==
    IF Len(parameters[extractor]) # Len(<<"path", "data_dir", "file_list_file">>)
    THEN attempt_raises(p, extractor, at, arity_error(Len(parameters[extractor])))
    ELSE IF extractor # "tar_extractor"
    THEN placeholder_returns(p, extractor, at)
    ELSE LET r == tar_open(fs[args[p].path], args[p].path)
         IN  IF r.raised
             THEN attempt_raises(p, extractor, at, r.error)
             ELSE /\ log' = [log EXCEPT ![p] = Append(@,
                               Attempt(extractor, at, "running", NoError))]
                  /\ pc' = [pc EXCEPT ![p] = "tar_dump"]
                  /\ site' = [site EXCEPT ![p] = at]
                  /\ tar' = [tar EXCEPT ![p] = r.tarinfos]
                  /\ members' = [members EXCEPT ![p] = r.members]
                  /\ UNCHANGED <<fs, args, idx, k, outcome, fs0>>

\* lines 105-107: the extractor the hint selects is attempted
hinted_attempt(p) ==
    /\ pc[p] = "hinted"
    /\ LET hint == guess_type(args[p].path)
       IN  call_extractor(p, hinted_extractor(hint[1], hint[2]), "hinted")

\* lines 115-117: the next extractor of the sweep is attempted
sweep_attempt(p) ==
    /\ pc[p] = "sweep"
    /\ idx[p] <= Len(sweep_extractors)
    /\ call_extractor(p, sweep_extractors[idx[p]], "sweep")

\* line 124: the sweep is exhausted
raise_unsupported(p) ==
    /\ pc[p] = "sweep"
    /\ idx[p] > Len(sweep_extractors)
    /\ pc' = [pc EXCEPT ![p] = "done"]
    /\ outcome' = [outcome EXCEPT ![p] = Raised(unsupported_error(args[p].path))]
    /\ UNCHANGED <<fs, args, idx, site, tar, members, k, log, fs0>>

\* the manifest file opened for writing, json.dump left for after extractall
tar_dump_deferred(p) ==
    /\ pc[p] = "tar_dump"
    /\ fs' = [fs EXCEPT ![args[p].file_list_file] = [kind |-> "empty"]]
    /\ log' = [log EXCEPT ![p] = SetLast(@, "manifest", TRUE)]
    /\ pc' = [pc EXCEPT ![p] = "tar_extract"]
    /\ k' = [k EXCEPT ![p] = 1]
    /\ UNCHANGED <<args, idx, site, tar, members, outcome, fs0>>

\* "members" kept as one module-level dict: the manifest holds the entries
\* of every call that is between enumeration and return
tar_dump_module_members(p) ==
    /\ pc[p] = "tar_dump"
    /\ LET others == {q \in Procs \ {p} : pc[q] \in {"tar_dump", "tar_extract"}}
           shared == IF others = {} THEN members[p]
                     ELSE dict_merge(members[CHOOSE q \in others : TRUE], members[p])
       IN  fs' = [fs EXCEPT ![args[p].file_list_file] = json_dump(shared)]
    /\ log' = [log EXCEPT ![p] = SetLast(@, "manifest", TRUE)]
    /\ pc' = [pc EXCEPT ![p] = "tar_extract"]
    /\ k' = [k EXCEPT ![p] = 1]
    /\ UNCHANGED <<args, idx, site, tar, members, outcome, fs0>>

\* lines 46-49: the manifest is written
tar_dump(p) ==
    /\ pc[p] = "tar_dump"
    /\ fs' = [fs EXCEPT ![args[p].file_list_file] = json_dump(members[p])]
    /\ log' = [log EXCEPT ![p] = SetLast(@, "manifest", TRUE)]
    /\ pc' = [pc EXCEPT ![p] = "tar_extract"]
    /\ k' = [k EXCEPT ![p] = 1]
    /\ UNCHANGED <<args, idx, site, tar, members, outcome, fs0>>

\* the error of writing a regular file where a directory is
extract_error(target) ==
    Exc("IsADirectoryError", "Is a directory: {targetpath}", <<target>>)

\* line 50: extractall extracts the next member, or raises at it
tar_extract(p) ==
    /\ pc[p] = "tar_extract"
    /\ k[p] <= Len(tar[p])
    /\ LET member == tar[p][k[p]]
           target == join(args[p].data_dir, member.name)
           nxt == except_pass(extract_error(target), site[p], idx[p])
       IN  IF extract_raises(member, fs[target])
           THEN /\ log' = [log EXCEPT ![p] =
                     SetLast(SetLast(@, "result", "raised"), "error", extract_error(target))]
                /\ pc' = [pc EXCEPT ![p] = nxt.pc]
                /\ idx' = [idx EXCEPT ![p] = nxt.idx]
                /\ outcome' = [outcome EXCEPT ![p] = nxt.outcome]
                /\ UNCHANGED <<fs, k>>
           ELSE /\ fs' = [fs EXCEPT ![target] = extract_member(member, fs[target])]
                /\ log' = [log EXCEPT ![p] = SetLast(@, "extracted", k[p])]
                /\ k' = [k EXCEPT ![p] = k[p] + 1]
                /\ UNCHANGED <<pc, idx, outcome>>
    /\ UNCHANGED <<args, site, tar, members, fs0>>

\* tar_extractor returns, and the dispatcher takes "else: return"
tar_return(p) ==
    /\ pc[p] = "tar_extract"
    /\ k[p] > Len(tar[p])
    /\ LET nxt == else_return(site[p], idx[p])
       IN  /\ pc' = [pc EXCEPT ![p] = nxt.pc]
           /\ idx' = [idx EXCEPT ![p] = nxt.idx]
           /\ outcome' = [outcome EXCEPT ![p] = nxt.outcome]
    /\ log' = [log EXCEPT ![p] = SetLast(@, "result", "returned")]
    /\ UNCHANGED <<fs, args, site, tar, members, k, fs0>>

\* callers run their dispatches one after the other: when p calls, the
\* callers before it have finished and those after it have not called
Serial(p) ==
    \A i, j \in 1..Len(Callers) :
        Callers[j] = p =>
            /\ i < j => pc[Callers[i]] = "done"
            /\ i > j => pc[Callers[i]] = "idle"

Next ==
    \E p \in Procs :
        \/ /\ Serial(p)
           /\ \E path \in SourcePaths, t \in Targets :
                  extract_data_files(p, path, t[1], t[2])
        \/ hinted_attempt(p)
        \/ sweep_attempt(p)
        \/ raise_unsupported(p)
        \/ tar_dump(p)
        \/ tar_extract(p)
        \/ tar_return(p)

Spec == Init /\ [][Next]_vars

(* --------- two dispatches on different datasets, interleaved ----------- *)
\* the dataset of each caller: its source files, its target directory and
\* the contents its source files may have
ConcPaths ==
    (Callers[1] :> {Path("dl", <<"x", "tar">>), Path("dl", <<"x", "csv", "gz">>)})
    @@ (Callers[2] :> {Path("dl", <<"x", "zip">>)})

ConcDir == (Callers[1] :> "d1") @@ (Callers[2] :> "d2")

ConcContents ==
    (Callers[1] :> SourceContents)
    @@ (Callers[2] :> {NotTar,
                       TarFile(<< [name |-> "a", type |-> REGTYPE, size |-> 1],
                                  [name |-> "b", type |-> DIRTYPE, size |-> 0] >>),
                       TarFile(<< [name |-> "b", type |-> DIRTYPE, size |-> 0],
                                  [name |-> "b", type |-> REGTYPE, size |-> 1] >>)})

InitConc ==
    /\ \E c1 \in ConcContents[Callers[1]], c2 \in ConcContents[Callers[2]] :
          fs = [q \in AllPaths |->
                  IF q \in ConcPaths[Callers[1]] THEN c1
                  ELSE IF q \in ConcPaths[Callers[2]] THEN c2
                  ELSE Absent]
    /\ pc = [p \in Procs |-> "idle"]
    /\ args = [p \in Procs |-> NoArgs]
    /\ idx = [p \in Procs |-> 0]
    /\ site = [p \in Procs |-> "none"]
    /\ tar = [p \in Procs |-> <<>>]
    /\ members = [p \in Procs |-> <<>>]
    /\ k = [p \in Procs |-> 0]
    /\ outcome = [p \in Procs |-> NoOutcome]
    /\ log = [p \in Procs |-> <<>>]
    /\ fs0 = [p \in Procs |-> fs]

\* the steps of the two dispatches in any order
NextConc ==
    \E p \in Procs :
        \/ \E path \in ConcPaths[p] :
               extract_data_files(p, path, ConcDir[p], ListFile(ConcDir[p]))
        \/ hinted_attempt(p)
        \/ sweep_attempt(p)
        \/ raise_unsupported(p)
        \/ tar_dump(p)
        \/ tar_extract(p)
        \/ tar_return(p)

SpecConc == InitConc /\ [][NextConc]_vars

(* ------------- one dispatch whose paths may name the source ------------ *)
\* the data of a regular member is read from the archive after the file at
\* the source path has been written over (by the manifest, by an earlier
\* member, or by the opening of this member's own target)
stale_read(p, member) ==
    /\ isreg(member)
    /\ \/ fs[args[p].path] # TarFile(tar[p])
       \/ join(args[p].data_dir, member.name) = args[p].path

\* the error of copying member data that is no longer in the file
short_read_error == Exc("ReadError", "unexpected end of data", <<>>)

\* line 50: the copy of a member's data runs into the end of the changed
\* source file; the target has been opened for writing and stays empty.
\* (The copy may also be served from what was read before the change:
\* that outcome is tar_extract.)
tar_extract_short_read(p) ==
    /\ pc[p] = "tar_extract"
    /\ k[p] <= Len(tar[p])
    /\ LET member == tar[p][k[p]]
           target == join(args[p].data_dir, member.name)
           nxt == except_pass(short_read_error, site[p], idx[p])
       IN  /\ stale_read(p, member)
           /\ ~extract_raises(member, fs[target])
           /\ fs[target].kind # "link"
           /\ fs' = [fs EXCEPT ![target] = [kind |-> "empty"]]
           /\ log' = [log EXCEPT ![p] =
                 SetLast(SetLast(@, "result", "raised"), "error", short_read_error)]
           /\ pc' = [pc EXCEPT ![p] = nxt.pc]
           /\ idx' = [idx EXCEPT ![p] = nxt.idx]
           /\ outcome' = [outcome EXCEPT ![p] = nxt.outcome]
    /\ UNCHANGED <<args, site, tar, members, k, fs0>>

AliasContents ==
    {TarFile(ms) : ms \in SeqsUpTo(AliasTarInfos, MaxMembers)} \cup {NotTar}

InitAlias ==
    /\ \E content \in AliasContents :
          fs = [q \in AllPaths |-> IF q \in SourcePaths THEN content ELSE Absent]
    /\ pc = [p \in Procs |-> "idle"]
    /\ args = [p \in Procs |-> NoArgs]
    /\ idx = [p \in Procs |-> 0]
    /\ site = [p \in Procs |-> "none"]
    /\ tar = [p \in Procs |-> <<>>]
    /\ members = [p \in Procs |-> <<>>]
    /\ k = [p \in Procs |-> 0]
    /\ outcome = [p \in Procs |-> NoOutcome]
    /\ log = [p \in Procs |-> <<>>]
    /\ fs0 = [p \in Procs |-> fs]

\* the caller passes any target directory, the download directory included,
\* and any manifest path, the source path included
NextAlias ==
    \/ \E path \in SourcePaths, d \in {"d1", DownloadDir} :
           \E file_list_file \in {ListFile(d), path} :
               extract_data_files(Callers[1], path, d, file_list_file)
    \/ hinted_attempt(Callers[1])
    \/ sweep_attempt(Callers[1])
    \/ raise_unsupported(Callers[1])
    \/ tar_dump(Callers[1])
    \/ tar_extract(Callers[1])
    \/ tar_extract_short_read(Callers[1])
    \/ tar_return(Callers[1])

SpecAlias == InitAlias /\ [][NextAlias]_vars

(* ---------------- one dispatch on archives of every member kind -------- *)
TypedContents == {TarFile(ms) : ms \in SeqsUpTo(TypedTarInfos, MaxMembers)}

InitTypes ==
    /\ \E content \in TypedContents :
          fs = [q \in AllPaths |-> IF q \in SourcePaths THEN content ELSE Absent]
    /\ pc = [p \in Procs |-> "idle"]
    /\ args = [p \in Procs |-> NoArgs]
    /\ idx = [p \in Procs |-> 0]
    /\ site = [p \in Procs |-> "none"]
    /\ tar = [p \in Procs |-> <<>>]
    /\ members = [p \in Procs |-> <<>>]
    /\ k = [p \in Procs |-> 0]
    /\ outcome = [p \in Procs |-> NoOutcome]
    /\ log = [p \in Procs |-> <<>>]
    /\ fs0 = [p \in Procs |-> fs]

NextTypes ==
    \/ \E path \in SourcePaths, t \in Targets :
           extract_data_files(Callers[1], path, t[1], t[2])
    \/ hinted_attempt(Callers[1])
    \/ sweep_attempt(Callers[1])
    \/ raise_unsupported(Callers[1])
    \/ tar_dump(Callers[1])
    \/ tar_extract(Callers[1])
    \/ tar_return(Callers[1])

SpecTypes == InitTypes /\ [][NextTypes]_vars

(* ------------------------- notions of the claims ----------------------- *)
Done(p) == pc[p] = "done"

Succeeded(p) == Done(p) /\ outcome[p] = Returned

Failed(p) == Done(p) /\ outcome[p].kind = "raised"

\* the content of the source file when the dispatch was called
Source(p) == fs0[p][args[p].path]

Hint(p) == guess_type(args[p].path)

Extractors ==
    {"tar_extractor", "zip_extractor", "gzip_extractor", "bzip2_extractor",
     "lzma_extractor"}

ArchiveKeys == {archives[i][1] : i \in 1..Len(archives)}

CompressionKeys == {compressions[i][1] : i \in 1..Len(compressions)}

\* the archive opens and every member has a digit type code
Enumerable(content) ==
    /\ content.kind = "tar"
    /\ \A i \in 1..Len(content.members) : content.members[i].type # AREGTYPE

\* a valid tar archive: it opens, enumerates and unpacks (no regular file
\* comes after a directory of the same name)
ValidTar(content) ==
    /\ Enumerable(content)
    /\ \A i, j \in 1..Len(content.members) :
          i < j /\ content.members[i].name = content.members[j].name
             => ~(content.members[i].type = DIRTYPE /\ content.members[j].type = REGTYPE)

\* no other caller has been given the target of p
OwnTarget(p) ==
    \A q \in Procs \ {p} :
        pc[q] = "idle" \/ (args[q].data_dir # args[p].data_dir
                           /\ args[q].file_list_file # args[p].file_list_file)

(* -------------------------------- C1 ----------------------------------- *)
\* C1: a dispatch raises only when every extractor it attempted has failed
\* and the sweep has tried all five; the error is then the unsupported-format
\* error and never the error of an extractor; a finished dispatch all of
\* whose attempts failed has raised it.
C1_OnlyUnsupportedError ==
    \A p \in Procs :
        /\ outcome[p].kind = "raised" =>
              /\ Done(p)
              /\ outcome[p].error.type = "RuntimeError"
              /\ outcome[p].error.text = "Filetype not supported"
              /\ \A i \in 1..Len(log[p]) :
                    log[p][i].result = "raised" /\ log[p][i].error # outcome[p].error
              /\ \A e \in Extractors : \E i \in 1..Len(log[p]) :
                    log[p][i].site = "sweep" /\ log[p][i].extractor = e
        /\ (Done(p) /\ \A i \in 1..Len(log[p]) : log[p][i].result = "raised")
              => outcome[p].kind = "raised"

\* a corrupted file with the tar extension: the hinted tar attempt raised the
\* read error, the sweep was exhausted, the dispatch raised
C1_Witness ==
    \E p \in Procs :
        /\ Failed(p)
        /\ Len(log[p]) = 6
        /\ log[p][1].site = "hinted"
        /\ log[p][1].extractor = "tar_extractor"
        /\ log[p][1].error.type = "ReadError"

C3_FailedAttemptWroteNothing ==
    \A p \in Procs :
        /\ \A i \in 1..Len(log[p]) :
              log[p][i].result = "raised"
                 => ~log[p][i].manifest /\ log[p][i].extracted = 0
        /\ (Failed(p) /\ OwnTarget(p))
              => fs[args[p].file_list_file] = fs0[p][args[p].file_list_file]

\* C3 as amended: an attempt that failed at the call, at the open or while
\* the members were enumerated has written nothing; an attempt that failed
\* during member extraction has written the manifest; a dispatch on a source
\* that does not open and enumerate leaves the whole file system as it was.
C3_WritesOnlyAfterEnumeration ==
    \A p \in Procs :
        /\ \A i \in 1..Len(log[p]) :
              log[p][i].result = "raised" =>
                 /\ log[p][i].error.type # "IsADirectoryError"
                       => ~log[p][i].manifest /\ log[p][i].extracted = 0
                 /\ log[p][i].error.type = "IsADirectoryError"
                       => log[p][i].manifest /\ log[p][i].extractor = "tar_extractor"
        /\ (pc[p] # "idle" /\ OwnTarget(p) /\ ~Enumerable(Source(p)))
              => /\ fs[args[p].file_list_file] = fs0[p][args[p].file_list_file]
                 /\ \A n \in MemberNames :
                       fs[join(args[p].data_dir, n)] = fs0[p][join(args[p].data_dir, n)]

\* a dispatch that ended with the unsupported-format error although a tar
\* attempt had written the manifest and a member before it failed
C3_Witness ==
    \E p \in Procs :
        /\ Failed(p)
        /\ \E i \in 1..Len(log[p]) :
              /\ log[p][i].result = "raised"
              /\ log[p][i].manifest
              /\ log[p][i].extracted = 1
        /\ fs[args[p].file_list_file].kind = "json"
        /\ fs0[p][args[p].file_list_file].kind = "absent"

(* -------------------------------- C4 ----------------------------------- *)
\* C4: when the hinted attempt returns without raising, the dispatch has
\* returned success and no other extractor is attempted.
C4_HintedSuccessReturns ==
    \A p \in Procs :
        (/\ Len(log[p]) >= 1
         /\ log[p][1].site = "hinted"
         /\ log[p][1].result = "returned")
            => Succeeded(p) /\ Len(log[p]) = 1

C4_Witness ==
    \E p \in Procs :
        /\ Len(log[p]) = 1
        /\ log[p][1].site = "hinted"
        /\ log[p][1].result = "returned"
        /\ Len(Source(p).members) = 2
        /\ Done(p)

(* -------------------------------- C5 ----------------------------------- *)
\* C5 as stated: no extractor is attempted twice in one dispatch.
C5_AtMostOnce ==
    \A p \in Procs : \A i, j \in 1..Len(log[p]) :
        i < j => log[p][i].extractor # log[p][j].extractor

\* C5 as amended: an extractor is attempted twice only when it is the hinted
\* extractor and its hinted attempt failed, the second attempt being the
\* sweep's; no extractor is attempted twice by the sweep, none three times.
C5_OncePerPhase ==
    \A p \in Procs : \A i, j \in 1..Len(log[p]) :
        (i < j /\ log[p][i].extractor = log[p][j].extractor)
            => /\ i = 1
               /\ log[p][1].site = "hinted"
               /\ log[p][1].result = "raised"
               /\ log[p][j].site = "sweep"

\* the hinted zip attempt failed and the sweep attempted zip again
C5_Witness ==
    \E p \in Procs :
        /\ Len(log[p]) >= 3
        /\ log[p][1].site = "hinted"
        /\ log[p][1].extractor = "zip_extractor"
        /\ log[p][3].extractor = "zip_extractor"

(* -------------------------------- C6 ----------------------------------- *)
\* C6: a hinted attempt is made exactly when the guessed type or the guessed
\* encoding is a key of one of the two registries; it is the first attempt
\* and the only hinted one, and its extractor is the archive extractor of
\* the type when the type is an archive key, otherwise the compression
\* extractor of the encoding.
C6_HintedSelection ==
    \A p \in Procs :
        pc[p] \notin {"idle", "hinted"} =>
            LET ftype == Hint(p)[1]
                fencoding == Hint(p)[2]
                made == Len(log[p]) >= 1 /\ log[p][1].site = "hinted"
            IN  /\ made <=> (ftype \in ArchiveKeys \cup CompressionKeys
                             \/ fencoding \in ArchiveKeys \cup CompressionKeys)
                /\ made => log[p][1].extractor =
                              IF ftype \in ArchiveKeys
                              THEN dict_get(archives, ftype, None)
                              ELSE dict_get(compressions, fencoding, None)
                /\ \A i \in 2..Len(log[p]) : log[p][i].site = "sweep"

\* x.tgz: the type is application/x-tar, the encoding gzip, and the hinted
\* attempt is the tar extractor
C6_Witness ==
    \E p \in Procs :
        /\ Hint(p) = <<"application/x-tar", "gzip">>
        /\ Len(log[p]) >= 1
        /\ log[p][1].site = "hinted"
        /\ log[p][1].extractor = "tar_extractor"

(* -------------------------------- C7 ----------------------------------- *)
\* C7: the error a failed dispatch raises carries the path of the source
\* file: the path is one of the values formatted into its message.
C7_ErrorCarriesPath ==
    \A p \in Procs :
        outcome[p].kind = "raised" =>
            \E i \in 1..Len(outcome[p].error.interpolated) :
                outcome[p].error.interpolated[i] = args[p].path

(* -------------------------------- C8 ----------------------------------- *)
\* the manifest entry of a member: its type code and, for a regular file,
\* its size
Entry(member) ==
    IF member.type = REGTYPE
    THEN << <<"type", 0>>, <<"size", member.size>> >>
    ELSE << <<"type", 5>> >>

Manifest(p) == fs[args[p].file_list_file].items

NamesOf(tarinfos) == {tarinfos[i].name : i \in 1..Len(tarinfos)}

FirstIndex(tarinfos, n) ==
    CHOOSE i \in 1..Len(tarinfos) :
        tarinfos[i].name = n /\ \A j \in 1..(i - 1) : tarinfos[j].name # n

LastIndex(tarinfos, n) ==
    CHOOSE i \in 1..Len(tarinfos) :
        tarinfos[i].name = n /\ \A j \in (i + 1)..Len(tarinfos) : tarinfos[j].name # n

\* C8 as stated: after a successful dispatch the manifest has as many entries
\* as the archive has members, and every member's entry holds that member's
\* type code and, for a regular file, size.
C8_OneEntryPerMember ==
    \A p \in Procs :
        Succeeded(p) =>
            /\ Len(Manifest(p)) = Len(Source(p).members)
            /\ \A i \in 1..Len(Source(p).members) :
                  /\ dict_has(Manifest(p), Source(p).members[i].name)
                  /\ dict_get(Manifest(p), Source(p).members[i].name, <<>>)
                        = Entry(Source(p).members[i])

\* C8 as amended: the manifest has one entry per distinct member name, and
\* the entry of a name holds the type code and, for a regular file, the size
\* of the last member of that name.
C8_OneEntryPerName ==
    \A p \in Procs :
        Succeeded(p) =>
            LET tarinfos == Source(p).members
            IN  /\ Len(Manifest(p)) = Cardinality(NamesOf(tarinfos))
                /\ {Manifest(p)[i][1] : i \in 1..Len(Manifest(p))} = NamesOf(tarinfos)
                /\ \A n \in NamesOf(tarinfos) :
                      dict_get(Manifest(p), n, <<>>)
                          = Entry(tarinfos[LastIndex(tarinfos, n)])

\* an archive with two members of one name and different sizes was unpacked
C8_Witness ==
    \E p \in Procs :
        /\ Succeeded(p)
        /\ Len(Source(p).members) = 2
        /\ Source(p).members[1].name = Source(p).members[2].name
        /\ Source(p).members[1].size = 1
        /\ Source(p).members[2].size = MaxSize
        /\ Len(Manifest(p)) = 1

(* -------------------------------- C9 ----------------------------------- *)
\* C9: of two keys of the manifest, the one listed first is the one whose
\* name occurs first in the archive.
C9_ManifestOrder ==
    \A p \in Procs :
        Succeeded(p) =>
            \A i, j \in 1..Len(Manifest(p)) :
                i < j => FirstIndex(Source(p).members, Manifest(p)[i][1])
                            < FirstIndex(Source(p).members, Manifest(p)[j][1])

\* an archive whose members are b, then a: the manifest lists b before a
C9_Witness ==
    \E p \in Procs :
        /\ Succeeded(p)
        /\ Len(Manifest(p)) = 2
        /\ Manifest(p)[1][1] = "b"
        /\ Manifest(p)[2][1] = "a"

(* -------------------------------- C10 ---------------------------------- *)
\* C10: two successful dispatches on source files of the same content have
\* written the same manifest, whatever their names (hints), their targets
\* and the attempts that failed before the successful one.
C10_SameManifest ==
    \A p, q \in Procs :
        (Succeeded(p) /\ Succeeded(q) /\ Source(p) = Source(q)) =>
            /\ fs[args[p].file_list_file].kind = "json"
            /\ fs[args[p].file_list_file] = fs[args[q].file_list_file]

\* the first run succeeded at the hinted tar attempt, the second, into the
\* other directory, at the sweep after its hinted attempt had failed
C10_Witness ==
    \E p, q \in Procs :
        /\ Succeeded(p) /\ Succeeded(q)
        /\ args[p].file_list_file # args[q].file_list_file
        /\ args[p].data_dir # args[q].data_dir
        /\ Len(log[p]) = 1 /\ log[p][1].site = "hinted"
        /\ Len(log[q]) = 2 /\ log[q][1].result = "raised"
        /\ Len(Manifest(p)) = 2

(* -------------------------------- C13 ---------------------------------- *)
\* the attempts of the sweep of p, in order
SweepLog(p) == SelectSeq(log[p], LAMBDA a : a.site = "sweep")

RegistryOrder ==
    <<"tar_extractor", "zip_extractor", "gzip_extractor", "bzip2_extractor",
      "lzma_extractor">>

\* C13: the n-th attempt of the sweep is the n-th extractor of the registry
\* (tar, zip, gzip, bzip2, xz); every attempt of the sweep but the last has
\* failed, and an attempt of the sweep that succeeded is the last attempt of
\* the dispatch, which is then finished.
C13_SweepInRegistryOrder ==
    \A p \in Procs :
        LET sweep == SweepLog(p)
        IN  /\ Len(sweep) <= Len(RegistryOrder)
            /\ \A n \in 1..Len(sweep) :
                  /\ sweep[n].extractor = RegistryOrder[n]
                  /\ n < Len(sweep) => sweep[n].result = "raised"
                  /\ sweep[n].result = "returned"
                        => Succeeded(p) /\ log[p][Len(log[p])] = sweep[n]

\* a sweep that went through the five extractors, after a failed hinted attempt
C13_Witness ==
    \E p \in Procs :
        /\ Len(SweepLog(p)) = 5
        /\ Len(log[p]) = 6
        /\ SweepLog(p)[5].extractor = "lzma_extractor"
        /\ Failed(p)

(* -------------------------------- C14 ---------------------------------- *)
\* C14: a tar attempt on a source that does not open as a tar archive has
\* raised a read error whose message carries the source path and the error
\* of the open, and it has written neither the manifest nor a member: the
\* manifest file and the target directory are as they were at the call.
C14_OpenFailureReadError ==
    \A p \in Procs :
        (pc[p] # "idle" /\ Source(p).kind # "tar") =>
            /\ \A i \in 1..Len(log[p]) :
                  log[p][i].extractor = "tar_extractor" =>
                      /\ log[p][i].result = "raised"
                      /\ log[p][i].error.type = "ReadError"
                      /\ Len(log[p][i].error.interpolated) = 2
                      /\ log[p][i].error.interpolated[1] = args[p].path
                      /\ log[p][i].error.interpolated[2].type = "ReadError"
                      /\ log[p][i].error.interpolated[2].interpolated = <<>>
                      /\ ~log[p][i].manifest
                      /\ log[p][i].extracted = 0
            /\ pc[p] \notin {"tar_dump", "tar_extract"}
            /\ OwnTarget(p) =>
                  /\ fs[args[p].file_list_file] = fs0[p][args[p].file_list_file]
                  /\ \A n \in MemberNames :
                        fs[join(args[p].data_dir, n)] = fs0[p][join(args[p].data_dir, n)]

\* the sweep's tar attempt on a file that is no archive has raised
C14_Witness ==
    \E p \in Procs :
        /\ pc[p] # "idle"
        /\ Source(p) = NotTar
        /\ Len(log[p]) >= 1
        /\ log[p][1].site = "sweep"
        /\ log[p][1].extractor = "tar_extractor"
        /\ log[p][1].error.interpolated[1] = args[p].path

(* -------------------------------- C16 ---------------------------------- *)
\* C16: every attempt of a placeholder extractor has raised TypeError; a
\* dispatch has succeeded exactly when it is finished and a tar attempt of it
\* has returned; a dispatch that succeeded has written the manifest file.
C16_OnlyTarSucceeds ==
    \A p \in Procs :
        /\ \A i \in 1..Len(log[p]) :
              log[p][i].extractor # "tar_extractor" =>
                  log[p][i].result = "raised" /\ log[p][i].error.type = "TypeError"
        /\ outcome[p] = Returned <=>
              (Done(p) /\ \E i \in 1..Len(log[p]) :
                  log[p][i].extractor = "tar_extractor" /\ log[p][i].result = "returned")
        /\ outcome[p] = Returned =>
              /\ log[p][Len(log[p])].manifest
              /\ fs[args[p].file_list_file].kind = "json"

\* x.zip holding a tar archive: the zip attempt raised, the tar attempt of
\* the sweep succeeded
C16_Witness ==
    \E p \in Procs :
        /\ Succeeded(p)
        /\ log[p][1].extractor = "zip_extractor"
        /\ log[p][1].error.type = "TypeError"
        /\ log[p][2].extractor = "tar_extractor"

(* -------------------------------- C17 ---------------------------------- *)
\* the manifest file of p lists the names of the archive of p
FullManifest(p) ==
    /\ fs[args[p].file_list_file].kind = "json"
    /\ {Manifest(p)[i][1] : i \in 1..Len(Manifest(p))} = NamesOf(Source(p).members)

\* C17: while a tar attempt is extracting, and from its first extracted
\* member on, the manifest file exists and lists every member name of the
\* archive; an attempt that failed during extraction has left it so.
C17_ManifestBeforeMembers ==
    \A p \in Procs :
        /\ pc[p] = "tar_extract" => FullManifest(p)
        /\ \A i \in 1..Len(log[p]) :
              (log[p][i].extracted >= 1 \/ log[p][i].error.type = "IsADirectoryError")
                  => log[p][i].manifest /\ FullManifest(p)

\* a tar attempt that failed at its second member: the first member and the
\* manifest are on disk
C17_Witness ==
    \E p \in Procs :
        /\ Len(log[p]) >= 1
        /\ log[p][1].result = "raised"
        /\ log[p][1].extracted = 1
        /\ fs[join(args[p].data_dir, Source(p).members[1].name)].kind = "dir"
        /\ FullManifest(p)

(* -------------------------------- C15 ---------------------------------- *)
\* C15: in a manifest tar_extractor has written, every entry has a type
\* code, and it has a size exactly when the last archive member of that name
\* is a regular file, the size being that member's; the entry of a name
\* whose last member is a directory or a symbolic link has no size, whatever
\* the earlier members of the name were.
C15_SizeIffRegular ==
    \A p \in Procs :
        (pc[p] # "idle" /\ fs[args[p].file_list_file].kind = "json") =>
            \A i \in 1..Len(Manifest(p)) :
                LET tarinfos == Source(p).members
                    last == tarinfos[LastIndex(tarinfos, Manifest(p)[i][1])]
                    entry == Manifest(p)[i][2]
                IN  /\ dict_has(entry, "type")
                    /\ dict_has(entry, "size") <=> last.type = REGTYPE
                    /\ dict_has(entry, "size") => dict_get(entry, "size", 0) = last.size

\* a regular file followed by a symbolic link of the same name: the entry
\* of the name has the type code of the link and no size
C15_Witness ==
    \E p \in Procs :
        /\ Succeeded(p)
        /\ Len(Source(p).members) = 2
        /\ Source(p).members[1].type = REGTYPE
        /\ Source(p).members[2].type = SYMTYPE
        /\ Source(p).members[1].name = Source(p).members[2].name
        /\ Manifest(p) = << <<Source(p).members[1].name, << <<"type", 2>> >> >> >>

(* -------------------------------- C11 ---------------------------------- *)
\* C11: after any dispatch, successful or failed, and for any target
\* directory, manifest path and member names, the source file has the
\* content it had before the call.
C11_SourceUntouched ==
    \A p \in Procs : Done(p) => fs[args[p].path] = fs0[p][args[p].path]

\* the same, for the dispatches whose manifest path and extraction targets
\* are not the source path
C11_SourceUntouchedUnlessNamed ==
    \A p \in Procs :
        ( /\ Done(p)
          /\ args[p].file_list_file # args[p].path
          /\ \A i \in 1..Len(tar[p]) :
                 join(args[p].data_dir, tar[p][i].name) # args[p].path )
        => fs[args[p].path] = fs0[p][args[p].path]

\* the source is unchanged while the stale-read case cannot arise
SourceIntact ==
    \A p \in Procs :
        pc[p] = "tar_extract" =>
            \A i \in 1..Len(tar[p]) : ~stale_read(p, tar[p][i])

(* -------------------------------- C12 ---------------------------------- *)
\* what one dispatch run alone on an empty target leaves: the content of
\* the manifest path, of the target of each member name, and the outcome
SoloStart == [manifest |-> Absent, files |-> [n \in MemberNames |-> Absent]]

RECURSIVE solo_extract(_, _, _)
solo_extract(tarinfos, i, files) ==
    IF i > Len(tarinfos) THEN [raised |-> FALSE, files |-> files]
    ELSE IF extract_raises(tarinfos[i], files[tarinfos[i].name])
    THEN [raised |-> TRUE, files |-> files]
    ELSE solo_extract(tarinfos, i + 1,
             [files EXCEPT ![tarinfos[i].name] = extract_member(tarinfos[i], @)])

solo_call(extractor, content, path, st) ==
    IF Len(parameters[extractor]) # 3 THEN [raised |-> TRUE, st |-> st]
    ELSE IF extractor # "tar_extractor" THEN [raised |-> FALSE, st |-> st]
    ELSE LET r == tar_open(content, path)
         IN  IF r.raised THEN [raised |-> TRUE, st |-> st]
             ELSE LET e == solo_extract(r.tarinfos, 1, st.files)
                  IN  [raised |-> e.raised,
                       st |-> [manifest |-> json_dump(r.members), files |-> e.files]]

RECURSIVE solo_sweep(_, _, _, _)
solo_sweep(i, content, path, st) ==
    IF i > Len(sweep_extractors)
    THEN [outcome |-> Raised(unsupported_error(path)), st |-> st]
    ELSE LET r == solo_call(sweep_extractors[i], content, path, st)
         IN  IF r.raised THEN solo_sweep(i + 1, content, path, r.st)
             ELSE [outcome |-> Returned, st |-> r.st]

Solo(content, path) ==
    LET hint == guess_type(path)
    IN  IF hint_resolves(hint[1], hint[2])
        THEN LET r == solo_call(hinted_extractor(hint[1], hint[2]), content, path, SoloStart)
             IN  IF r.raised THEN solo_sweep(1, content, path, r.st)
                 ELSE [outcome |-> Returned, st |-> r.st]
        ELSE solo_sweep(1, content, path, SoloStart)

\* the finished dispatch of p has left what it leaves when run alone
AsAlone(p) ==
    LET alone == Solo(Source(p), args[p].path)
    IN  /\ outcome[p] = alone.outcome
        /\ fs[args[p].file_list_file] = alone.st.manifest
        /\ \A n \in MemberNames : fs[join(args[p].data_dir, n)] = alone.st.files[n]

\* the first caller of the serial runs is alone on an empty target
SoloIsAlone == Done(Callers[1]) /\ pc[Callers[2]] = "idle" => AsAlone(Callers[1])

\* C12: two dispatches on different datasets with distinct target
\* directories and manifest paths, their steps interleaved in any order,
\* each end with the outcome, the manifest and the target content of the
\* same dispatch run alone.
C12_NoInterference ==
    \A p \in Procs : Done(p) => AsAlone(p)

\* both dispatches have succeeded, and the second was called while the
\* first was between its manifest write and the extraction of member "a"
C12_Witness ==
    /\ Succeeded(Callers[1])
    /\ Succeeded(Callers[2])
    /\ fs0[Callers[2]][ListFile("d1")].kind = "json"
    /\ fs0[Callers[2]][join("d1", "a")].kind = "absent"
    /\ fs[join("d1", "a")].kind # "absent"
    /\ fs[join("d2", "a")].kind # "absent"

====
